---- MODULE Spec2Model ----
(***************************************************************************)
(* Model of day_twelve.py: the orientation generator                      *)
(* (normalize, rotate_90, flip_horizontal, get_all_orientations), the     *)
(* backtracking region solver (solve_region with its nested can_place,    *)
(* place_shape and backtrack) and the region loop of solve.                *)
(*                                                                         *)
(* A cell is a pair <<r, c>>.  A shape or an orientation is a set of       *)
(* cells.  Python indices are 0-based; TLA+ sequences are 1-based, so      *)
(* shapes_to_place[shape_index] of the program is                          *)
(* shapes_to_place[shape_index + 1] here.                                  *)
(***************************************************************************)
EXTENDS Integers, Sequences, FiniteSets, TLC

\* ------------------------------------------------------------------ bounds
\* Largest region width and height drawn as input.
MaxDim == 2
\* Largest quantity in one entry of a region's demand vector.
MaxQty == 2
\* Longest instance list handed directly to solve_region.
MaxInst == 3
\* Most regions in the input list of solve.
MaxRegions == 2
\* Shape ids are 0 .. NumShapes - 1.
NumShapes == 2
\* Shapes of the solver runs are drawn from the cells (0..MaxCoord) x (0..MaxCoord).
MaxCoord == 1
\* Inputs of get_all_orientations are drawn from (0..MaxOrientRow) x (0..MaxOrientCol).
MaxOrientRow == 2
MaxOrientCol == 1

\* ------------------------------------------------------------------ helpers
\* Python's range(n): 0, 1, ..., n-1 (empty when n <= 0).
Range(n) == 0 .. (n - 1)

SeqRange(s) == { s[i] : i \in DOMAIN s }

MinOf(S) == CHOOSE x \in S : \A y \in S : x <= y
MaxOf(S) == CHOOSE x \in S : \A y \in S : x >= y

\* ------------------------------------------------------------------ orientation generator
\* normalize (lines 105-115): translate so that the minimum row and the
\* minimum column are 0; the empty set is returned as is.
normalize_keep_cols(coords) ==
    IF coords = {} THEN {}
    ELSE LET min_r == MinOf({ rc[1] : rc \in coords })
         IN  { <<rc[1] - min_r, rc[2]>> : rc \in coords }

normalize(coords) ==
    IF coords = {} THEN {}
    ELSE LET min_r == MinOf({ rc[1] : rc \in coords })
             min_c == MinOf({ rc[2] : rc \in coords })
         IN  { <<rc[1] - min_r, rc[2] - min_c>> : rc \in coords }

\* rotate_90 (lines 118-122): (r, c) -> (c, -r).
rotate_90(coords) == { <<rc[2], 0 - rc[1]>> : rc \in coords }

\* flip_horizontal (lines 125-129): (r, c) -> (r, -c).
flip_horizontal(coords) == { <<rc[1], 0 - rc[2]>> : rc \in coords }

\* The loop of get_all_orientations (lines 139-142): `left` iterations remain,
\* `orientations` is the set built so far and `current` the rotated shape.
RECURSIVE orientation_loop(_, _, _)
orientation_loop(left, orientations, current) ==
    IF left = 0 THEN orientations
    ELSE orientation_loop(left - 1,
            orientations \cup { normalize(current),
                                normalize(flip_horizontal(current)) },
            rotate_90(current))

\* get_all_orientations (lines 132-144), up to the order of the returned
\* list: the set `orientations` that list(orientations) enumerates.  The
\* list holds every element of the set once, in an order the program does
\* not choose; the solver state below fixes that order position by position
\* when the program first reads it.
get_all_orientations(coords) == orientation_loop(4, {}, coords)

\* ------------------------------------------------------------------ state
VARIABLES
    coords_in,        \* get_all_orientations: its argument `coords`
    orient_out,       \* get_all_orientations: the set it returned
    orient_sets,      \* shape id -> the set get_all_orientations built (line 136)
    all_orientations, \* shape id -> the list of line 144, as far as it was read
    width, height,    \* the region being solved (lines 147, 263)
    counts,           \* its demand vector (line 263)
    shapes_to_place,  \* list of shape ids (lines 147, 268)
    grid,             \* grid[r][c] of line 156
    stack,            \* the active calls of backtrack, outermost first
    pc,               \* where the program is
    ret,              \* the value the last finished call of backtrack returned
    ret_entry,        \* history: the grid when that call was entered
    result,           \* the value solve_region returned
    run,              \* 1 for the first solve of the region, 2 for a repeated one
    first_solve,      \* history: the instance list and the result of the
                      \* first solve
    region_idx,       \* number of regions of the input list consumed (line 263)
    solvable_count,   \* line 260
    report,           \* what solve logged for the region: none, impossible,
                      \* trivial, success or failed (lines 293, 298, 313, 315)
    error,            \* the exception that ended the program, or "none"
    region_log        \* history: for each region read, what the input was:
                      \* malformed, packable or unpackable

vars == << coords_in, orient_out, orient_sets, all_orientations, width, height,
           counts, shapes_to_place, grid, stack, pc, ret, ret_entry, result,
           run, first_solve, region_idx, solvable_count, report, error,
           region_log >>

orientVars == << coords_in, orient_out >>
solveVars  == << counts, region_idx, solvable_count, report, region_log >>
repeatVars == << run, first_solve >>

ShapeIds == Range(NumShapes)
Box == (0 .. MaxCoord) \X (0 .. MaxCoord)
OrientBox == (0 .. MaxOrientRow) \X (0 .. MaxOrientCol)

\* ------------------------------------------------------------------ solve_region
\* The fresh grid of line 156.
new_grid(w, h) == [ r \in Range(h) |-> [ c \in Range(w) |-> FALSE ] ]

\* can_place (lines 163-177).
can_place_ignoring_occupancy(g, w, h, shape_coords, start_r, start_c) ==
    \A rc \in shape_coords :
        LET actual_r == start_r + rc[1]
            actual_c == start_c + rc[2]
        IN  /\ ~(actual_r < 0 \/ actual_r >= h)
            /\ ~(actual_c < 0 \/ actual_c >= w)

can_place(g, w, h, shape_coords, start_r, start_c) ==
    \A rc \in shape_coords :
        LET actual_r == start_r + rc[1]
            actual_c == start_c + rc[2]
        IN  /\ ~(actual_r < 0 \/ actual_r >= h)
            /\ ~(actual_c < 0 \/ actual_c >= w)
            /\ ~g[actual_r][actual_c]

\* place_shape (lines 179-182).
place_shape_always_marks(g, shape_coords, start_r, start_c, occupied) ==
    [ r \in DOMAIN g |-> [ c \in DOMAIN g[r] |->
        IF <<r - start_r, c - start_c>> \in shape_coords
        THEN TRUE ELSE g[r][c] ] ]

place_shape(g, shape_coords, start_r, start_c, occupied) ==
    [ r \in DOMAIN g |-> [ c \in DOMAIN g[r] |->
        IF <<r - start_r, c - start_c>> \in shape_coords
        THEN occupied ELSE g[r][c] ] ]

\* max_r and max_c of lines 191-192 (of a non-empty orientation).
max_r_of(orientation) == MaxOf({ rc[1] : rc \in orientation })
max_c_of(orientation) == MaxOf({ rc[2] : rc \in orientation })

\* The arguments of range() at lines 194 and 195.
row_count_inclusive(h, orientation) == h - max_r_of(orientation) + 1
row_count_short(h, orientation) == h - max_r_of(orientation) - 1
row_count(h, orientation) == h - max_r_of(orientation)
col_count(w, orientation) == w - max_c_of(orientation)

\* A call backtrack(shape_index) at its entry (line 184): oi = 0 means the
\* for loop of line 190 has not fetched an orientation yet; oi = i means the
\* loop is at the i-th orientation of the list, at anchor (start_r, start_c).
\* tried and entry are history: the anchors tried for the current
\* orientation, and the grid when the call was entered.
new_frame(shape_index, g) ==
    [ shape_index |-> shape_index, oi |-> 0, start_r |-> 0, start_c |-> 0,
      tried |-> {}, entry |-> g ]

Top == stack[Len(stack)]
Pop == SubSeq(stack, 1, Len(stack) - 1)
WithTop(f) == [ stack EXCEPT ![Len(stack)] = f ]

\* shape_id of line 188 and the orientation the loop of line 190 is at.
shape_id_of(f) == shapes_to_place[f.shape_index + 1]
orientation_of(f) == all_orientations[shape_id_of(f)][f.oi]

\* The length of the list all_orientations[shape_id] (line 144).
orientation_count(shape_id) == Cardinality(orient_sets[shape_id])

Running == pc = "run" /\ stack # << >>
InLoop == Running /\ Top.oi >= 1 /\ orientation_of(Top) # {}
RowsDone(f) == f.start_r >= row_count(height, orientation_of(f))
ColsDone(f) == f.start_c >= col_count(width, orientation_of(f))

\* solve_region, lines 153-154: nothing to place.
SolveRegionEmpty ==
    /\ pc = "called"
    /\ shapes_to_place = << >>
    /\ result' = TRUE
    /\ pc' = "returned"
    /\ UNCHANGED << orientVars, solveVars, repeatVars, orient_sets,
                    all_orientations, width, height, shapes_to_place, grid,
                    stack, ret, ret_entry, error >>

\* solve_region, lines 156 and 216: allocate the grid, call backtrack(0).
SolveRegionStart ==
    /\ pc = "called"
    /\ shapes_to_place # << >>
    /\ grid' = new_grid(width, height)
    /\ stack' = << new_frame(0, grid') >>
    /\ pc' = "run"
    /\ UNCHANGED << orientVars, solveVars, repeatVars, orient_sets,
                    all_orientations, width, height, shapes_to_place, ret,
                    ret_entry, result, error >>

\* backtrack, lines 185-186: every instance is placed.
BaseCase ==
    /\ Running
    /\ Top.oi = 0
    /\ Top.shape_index >= Len(shapes_to_place)
    /\ ret' = TRUE
    /\ ret_entry' = Top.entry
    /\ stack' = Pop
    /\ pc' = "return"
    /\ UNCHANGED << orientVars, solveVars, repeatVars, orient_sets,
                    all_orientations, width, height, shapes_to_place, grid,
                    result, error >>

\* The for loop of line 190 is asked for its next element: at the entry of
\* the call, or when the row loop of line 194 has run out.
AtLoopHead ==
    /\ Running
    /\ \/ Top.oi = 0 /\ Top.shape_index < Len(shapes_to_place)
       \/ InLoop /\ RowsDone(Top)

\* backtrack, line 190: the next orientation of the list.  A position of
\* the list that was never read before holds any orientation the earlier
\* positions do not hold.
FetchOrientation ==
    /\ AtLoopHead
    /\ Top.oi < orientation_count(shape_id_of(Top))
    /\ LET id   == shape_id_of(Top)
           next == Top.oi + 1
       IN  /\ \E o \in orient_sets[id] :
                /\ IF next <= Len(all_orientations[id])
                   THEN o = all_orientations[id][next]
                   ELSE o \notin SeqRange(all_orientations[id])
                /\ all_orientations' =
                     IF next <= Len(all_orientations[id])
                     THEN all_orientations
                     ELSE [ all_orientations EXCEPT ![id] = Append(@, o) ]
           /\ stack' = WithTop([ Top EXCEPT !.oi = next, !.start_r = 0,
                                            !.start_c = 0, !.tried = {} ])
    /\ UNCHANGED << orientVars, solveVars, repeatVars, orient_sets, width,
                    height, shapes_to_place, grid, pc, ret, ret_entry, result,
                    error >>

\* backtrack, line 214: the list of orientations has run out.
LoopExhausted ==
    /\ AtLoopHead
    /\ Top.oi >= orientation_count(shape_id_of(Top))
    /\ ret' = FALSE
    /\ ret_entry' = Top.entry
    /\ stack' = Pop
    /\ pc' = "return"
    /\ UNCHANGED << orientVars, solveVars, repeatVars, orient_sets,
                    all_orientations, width, height, shapes_to_place, grid,
                    result, error >>

\* backtrack, lines 191-192: max() of an empty sequence raises ValueError.
MaxOfEmpty ==
    /\ Running
    /\ Top.oi >= 1
    /\ orientation_of(Top) = {}
    /\ error' = "ValueError"
    /\ pc' = "error"
    /\ UNCHANGED << orientVars, solveVars, repeatVars, orient_sets,
                    all_orientations, width, height, shapes_to_place, grid,
                    stack, ret, ret_entry, result >>

\* backtrack, lines 194-195: the column loop has run out, next row.
NextRow ==
    /\ InLoop
    /\ ~RowsDone(Top)
    /\ ColsDone(Top)
    /\ stack' = WithTop([ Top EXCEPT !.start_r = @ + 1, !.start_c = 0 ])
    /\ UNCHANGED << orientVars, solveVars, repeatVars, orient_sets,
                    all_orientations, width, height, shapes_to_place, grid,
                    pc, ret, ret_entry, result, error >>

\* backtrack, lines 206-209: the placement is valid; mark it and recurse.
\* (The attempt counter and the progress log of lines 196-204 are
\* telemetry that nothing reads back.)
PlaceAndRecurse ==
    /\ InLoop
    /\ ~RowsDone(Top)
    /\ ~ColsDone(Top)
    /\ can_place(grid, width, height, orientation_of(Top), Top.start_r, Top.start_c)
    /\ grid' = place_shape(grid, orientation_of(Top), Top.start_r, Top.start_c, TRUE)
    /\ stack' = Append(
            WithTop([ Top EXCEPT !.tried = @ \cup { <<Top.start_r, Top.start_c>> } ]),
            new_frame(Top.shape_index + 1, grid'))
    /\ UNCHANGED << orientVars, solveVars, repeatVars, orient_sets,
                    all_orientations, width, height, shapes_to_place, pc, ret,
                    ret_entry, result, error >>

\* backtrack, line 206: the placement is not valid, next column.
RejectPlacement ==
    /\ InLoop
    /\ ~RowsDone(Top)
    /\ ~ColsDone(Top)
    /\ ~can_place(grid, width, height, orientation_of(Top), Top.start_r, Top.start_c)
    /\ stack' = WithTop([ Top EXCEPT !.tried = @ \cup { <<Top.start_r, Top.start_c>> },
                                     !.start_c = @ + 1 ])
    /\ UNCHANGED << orientVars, solveVars, repeatVars, orient_sets,
                    all_orientations, width, height, shapes_to_place, grid,
                    pc, ret, ret_entry, result, error >>

\* backtrack, lines 209-210: the recursive call returned True.
ReturnTrue ==
    /\ pc = "return"
    /\ stack # << >>
    /\ ret = TRUE
    /\ ret_entry' = Top.entry
    /\ stack' = Pop
    /\ UNCHANGED << orientVars, solveVars, repeatVars, orient_sets,
                    all_orientations, width, height, shapes_to_place, grid,
                    pc, ret, result, error >>

\* backtrack, lines 209 and 212: the recursive call returned False; unmark
\* the placement and go on with the next column.
UndoPlacement ==
    /\ pc = "return"
    /\ stack # << >>
    /\ ret = FALSE
    /\ grid' = place_shape(grid, orientation_of(Top), Top.start_r, Top.start_c, FALSE)
    /\ stack' = WithTop([ Top EXCEPT !.start_c = @ + 1 ])
    /\ pc' = "run"
    /\ UNCHANGED << orientVars, solveVars, repeatVars, orient_sets,
                    all_orientations, width, height, shapes_to_place, ret,
                    ret_entry, result, error >>

\* solve_region, lines 216-222: backtrack(0) returned.
SolveRegionReturn ==
    /\ pc = "return"
    /\ stack = << >>
    /\ result' = ret
    /\ pc' = "returned"
    /\ UNCHANGED << orientVars, solveVars, repeatVars, orient_sets,
                    all_orientations, width, height, shapes_to_place, grid,
                    stack, ret, ret_entry, error >>

Search ==
    \/ SolveRegionStart
    \/ BaseCase
    \/ FetchOrientation
    \/ LoopExhausted
    \/ MaxOfEmpty
    \/ NextRow
    \/ PlaceAndRecurse
    \/ RejectPlacement
    \/ ReturnTrue
    \/ UndoPlacement
    \/ SolveRegionReturn

\* ------------------------------------------------------------------ solve_region called directly
\* All sequences over S of length lo .. hi.
SeqsOf(S, lo, hi) == UNION { [ 1 .. n -> S ] : n \in lo .. hi }

Reorderings(s) ==
    { [ i \in DOMAIN s |-> s[p[i]] ] :
        p \in { q \in [ DOMAIN s -> DOMAIN s ] :
                  \A i, j \in DOMAIN s : q[i] = q[j] => i = j } }

\* The orientation lists before any position was read.
unread_lists == [ id \in ShapeIds |-> << >> ]

no_solve == [ shapes |-> << >>, result |-> FALSE ]

InitRegion ==
    /\ coords_in = {}
    /\ orient_out = {}
    /\ \E shapes \in [ ShapeIds -> SUBSET Box ] :
          orient_sets = [ id \in ShapeIds |-> get_all_orientations(shapes[id]) ]
    /\ all_orientations = unread_lists
    /\ width \in 1 .. MaxDim
    /\ height \in 1 .. MaxDim
    /\ counts = << >>
    /\ shapes_to_place \in SeqsOf(ShapeIds, 0, MaxInst)
    /\ grid = << >>
    /\ stack = << >>
    /\ pc = "called"
    /\ ret = FALSE
    /\ ret_entry = << >>
    /\ result = FALSE
    /\ run = 1
    /\ first_solve = no_solve
    /\ region_idx = 0
    /\ solvable_count = 0
    /\ report = "none"
    /\ error = "none"
    /\ region_log = << >>

\* solve_region is called again on the same region, with the instance list
\* permuted and the orientation lists in a new order.
SolveAgain ==
    /\ pc = "returned"
    /\ run = 1
    /\ run' = 2
    /\ first_solve' = [ shapes |-> shapes_to_place, result |-> result ]
    /\ shapes_to_place' \in Reorderings(shapes_to_place)
    /\ all_orientations' = unread_lists
    /\ grid' = << >>
    /\ ret' = FALSE
    /\ ret_entry' = << >>
    /\ result' = FALSE
    /\ pc' = "called"
    /\ UNCHANGED << orientVars, solveVars, orient_sets, width, height, stack,
                    error >>

NextRegionSolve == SolveRegionEmpty \/ Search \/ SolveAgain

SpecRegion == InitRegion /\ [][NextRegionSolve]_vars

\* ------------------------------------------------------------------ solve
\* Lines 268-273: the demand vector expanded to a list of shape ids, one
\* per demanded instance, in ascending id order.
RECURSIVE expand_from(_, _)
expand_from(cnts, i) ==
    IF i > Len(cnts) THEN << >>
    ELSE (IF cnts[i] > 0 THEN [ k \in 1 .. cnts[i] |-> i - 1 ] ELSE << >>)
         \o expand_from(cnts, i + 1)

expand(cnts) == expand_from(cnts, 1)

\* len(list(all_orientations[sid])[0]) of lines 284 and 305, in lists `lists`.
cells_of(lists, sid) == Cardinality(lists[sid][1])

\* Lines 283-285.
RECURSIVE total_cells_needed(_, _)
total_cells_needed(lists, ids) ==
    IF ids = << >> THEN 0
    ELSE cells_of(lists, Head(ids)) + total_cells_needed(lists, Tail(ids))

\* Lines 304-306: list.sort is stable; the key is minus the cell count.
sort_insert(lists, sorted, sid) ==
    LET keep == { i \in DOMAIN sorted :
                    0 - cells_of(lists, sorted[i]) <= 0 - cells_of(lists, sid) }
        n    == Cardinality(keep)
    IN  SubSeq(sorted, 1, n) \o << sid >> \o SubSeq(sorted, n + 1, Len(sorted))

RECURSIVE sort_from(_, _, _)
sort_from(lists, sorted, rest) ==
    IF rest = << >> THEN sorted
    ELSE sort_from(lists, sort_insert(lists, sorted, Head(rest)), Tail(rest))

sort_largest_first(lists, ids) == sort_from(lists, << >>, ids)

\* The quick check of line 292.
exceeds_or_fills(needed, available) == needed >= available
exceeds(needed, available) == needed > available

\* The orientation lists after position 0 of the lists of the ids in
\* `need` was read (lines 284, 305): a list not read before gets any of
\* its orientations as its first element.
first_reads(need) ==
    { [ id \in ShapeIds |->
          IF id \in need /\ all_orientations[id] = << >>
          THEN << f[id] >> ELSE all_orientations[id] ] :
        f \in { g \in [ ShapeIds -> UNION { orient_sets[id] : id \in ShapeIds } ] :
                  \A id \in ShapeIds : g[id] \in orient_sets[id] } }

\* A region of the input list as the contract of section 6 has it: positive
\* dimensions, and a demand only for shape ids of the mapping.
WellFormed(w, h, cnts) ==
    /\ w >= 1
    /\ h >= 1
    /\ \A i \in DOMAIN cnts : cnts[i] > 0 => (i - 1) \in ShapeIds

GridCells(w, h) == Range(h) \X Range(w)

Translate(orientation, r, c) == { <<rc[1] + r, rc[2] + c>> : rc \in orientation }

\* The specification's notion of a complete packing: the instances ids[k..]
\* can each be given an orientation and an anchor so that all cells lie in
\* the h x w grid and none is in `used` or shared.
RECURSIVE Fits(_, _, _, _, _)
Fits(w, h, ids, k, used) ==
    \/ k > Len(ids)
    \/ \E o \in orient_sets[ids[k]] :
         \E a \in GridCells(w, h) :
            LET cells == Translate(o, a[1], a[2])
            IN  /\ cells \subseteq GridCells(w, h)
                /\ cells \cap used = {}
                /\ Fits(w, h, ids, k + 1, used \cup cells)

Packable(w, h, ids) == Fits(w, h, ids, 1, {})

Classify(w, h, cnts) ==
    IF ~WellFormed(w, h, cnts) THEN "malformed"
    ELSE IF Packable(w, h, expand(cnts)) THEN "packable"
    ELSE "unpackable"

RECURSIVE SumOf(_)
SumOf(s) == IF s = << >> THEN 0 ELSE Head(s) + SumOf(Tail(s))

\* The demand vectors drawn as input: one entry more than there are shapes,
\* so that a vector can demand a shape id the mapping does not have.
DemandVectors ==
    { v \in SeqsOf(0 .. MaxQty, 0, NumShapes + 1) : SumOf(v) <= MaxInst }
Dims == (0 - 1) .. MaxDim

Init ==
    /\ coords_in = {}
    /\ orient_out = {}
    /\ \E shapes \in [ ShapeIds -> SUBSET Box ] :
          orient_sets = [ id \in ShapeIds |-> get_all_orientations(shapes[id]) ]
    /\ all_orientations = unread_lists
    /\ width = 0
    /\ height = 0
    /\ counts = << >>
    /\ shapes_to_place = << >>
    /\ grid = << >>
    /\ stack = << >>
    /\ pc = "regions"
    /\ ret = FALSE
    /\ ret_entry = << >>
    /\ result = FALSE
    /\ run = 1
    /\ first_solve = no_solve
    /\ region_idx = 0
    /\ solvable_count = 0
    /\ report = "none"
    /\ error = "none"
    /\ region_log = << >>

\* The loop of line 263 takes the next region (w, h, cnts) of the input
\* list; the locals of the previous iteration are gone.
MoreRegions == pc = "regions" /\ region_idx < MaxRegions

TakeRegion(w, h, cnts) ==
    /\ region_idx' = region_idx + 1
    /\ width' = w
    /\ height' = h
    /\ counts' = cnts
    /\ region_log' = Append(region_log, Classify(w, h, cnts))
    /\ UNCHANGED << orientVars, repeatVars, orient_sets, grid, stack, ret,
                    ret_entry, result >>

\* Line 284: all_orientations[sid] raises KeyError for an unknown shape id.
RegionKeyError ==
    \E w \in Dims, h \in Dims, cnts \in DemandVectors :
        /\ MoreRegions
        /\ \E sid \in SeqRange(expand(cnts)) : sid \notin ShapeIds
        /\ shapes_to_place' = expand(cnts)
        /\ report' = "none"
        /\ error' = "KeyError"
        /\ pc' = "error"
        /\ UNCHANGED << all_orientations, solvable_count >>
        /\ TakeRegion(w, h, cnts)

\* Lines 292-295: more cells needed than the region has.
RegionImpossible ==
    \E w \in Dims, h \in Dims, cnts \in DemandVectors :
        /\ MoreRegions
        /\ SeqRange(expand(cnts)) \subseteq ShapeIds
        /\ \E lists \in first_reads(SeqRange(expand(cnts))) :
              /\ all_orientations' = lists
              /\ exceeds(total_cells_needed(lists, expand(cnts)), w * h)
        /\ shapes_to_place' = expand(cnts)
        /\ report' = "impossible"
        /\ pc' = "region_done"
        /\ UNCHANGED << solvable_count, error >>
        /\ TakeRegion(w, h, cnts)

\* Lines 297-301: nothing to place.
RegionTrivial ==
    \E w \in Dims, h \in Dims, cnts \in DemandVectors :
        /\ MoreRegions
        /\ expand(cnts) = << >>
        /\ ~exceeds(0, w * h)
        /\ shapes_to_place' = << >>
        /\ report' = "trivial"
        /\ solvable_count' = solvable_count + 1
        /\ pc' = "region_done"
        /\ UNCHANGED << all_orientations, error >>
        /\ TakeRegion(w, h, cnts)

\* Lines 304-311: sort largest first and call solve_region.
RegionSolve ==
    \E w \in Dims, h \in Dims, cnts \in DemandVectors :
        /\ MoreRegions
        /\ expand(cnts) # << >>
        /\ SeqRange(expand(cnts)) \subseteq ShapeIds
        /\ \E lists \in first_reads(SeqRange(expand(cnts))) :
              /\ all_orientations' = lists
              /\ ~exceeds(total_cells_needed(lists, expand(cnts)), w * h)
              /\ shapes_to_place' = sort_largest_first(lists, expand(cnts))
        /\ report' = "none"
        /\ pc' = "called"
        /\ UNCHANGED << solvable_count, error >>
        /\ TakeRegion(w, h, cnts)

\* Lines 311-313: solve_region returned True.
RegionSuccess ==
    /\ pc = "returned"
    /\ result = TRUE
    /\ solvable_count' = solvable_count + 1
    /\ report' = "success"
    /\ pc' = "region_done"
    /\ UNCHANGED << orientVars, repeatVars, orient_sets, all_orientations,
                    width, height, counts, shapes_to_place, grid, stack, ret,
                    ret_entry, result, region_idx, error, region_log >>

\* Lines 311, 314-315: solve_region returned False.
RegionFailed ==
    /\ pc = "returned"
    /\ result = FALSE
    /\ report' = "failed"
    /\ pc' = "region_done"
    /\ UNCHANGED << orientVars, repeatVars, orient_sets, all_orientations,
                    width, height, counts, shapes_to_place, grid, stack, ret,
                    ret_entry, result, region_idx, solvable_count, error,
                    region_log >>

\* Line 317: the end of the loop body; the region's locals (the grid of
\* solve_region among them) are gone.
EndRegion ==
    /\ pc = "region_done"
    /\ pc' = "regions"
    /\ width' = 0
    /\ height' = 0
    /\ counts' = << >>
    /\ shapes_to_place' = << >>
    /\ grid' = << >>
    /\ ret' = FALSE
    /\ ret_entry' = << >>
    /\ result' = FALSE
    /\ report' = "none"
    /\ UNCHANGED << orientVars, repeatVars, orient_sets, all_orientations,
                    stack, region_idx, solvable_count, error, region_log >>

\* Lines 319-330: the list of regions has run out; solve returns
\* solvable_count.
Finish ==
    /\ pc = "regions"
    /\ pc' = "done"
    /\ UNCHANGED << orientVars, repeatVars, orient_sets, all_orientations,
                    width, height, counts, shapes_to_place, grid, stack, ret,
                    ret_entry, result, region_idx, solvable_count, report,
                    error, region_log >>

Next ==
    \/ RegionKeyError
    \/ RegionImpossible
    \/ RegionTrivial
    \/ RegionSolve
    \/ Search
    \/ RegionSuccess
    \/ RegionFailed
    \/ EndRegion
    \/ Finish

Spec == Init /\ [][Next]_vars

\* ------------------------------------------------------------------ get_all_orientations called directly
InitOrient ==
    /\ coords_in \in SUBSET OrientBox
    /\ orient_out = {}
    /\ orient_sets = [ id \in ShapeIds |-> {} ]
    /\ all_orientations = unread_lists
    /\ width = 0
    /\ height = 0
    /\ counts = << >>
    /\ shapes_to_place = << >>
    /\ grid = << >>
    /\ stack = << >>
    /\ pc = "orient_call"
    /\ ret = FALSE
    /\ ret_entry = << >>
    /\ result = FALSE
    /\ run = 1
    /\ first_solve = no_solve
    /\ region_idx = 0
    /\ solvable_count = 0
    /\ report = "none"
    /\ error = "none"
    /\ region_log = << >>

\* get_all_orientations(coords_in) runs and returns.
ApplyOrientations ==
    /\ pc = "orient_call"
    /\ orient_out' = get_all_orientations(coords_in)
    /\ pc' = "orient_done"
    /\ UNCHANGED << coords_in, solveVars, repeatVars, orient_sets,
                    all_orientations, width, height, shapes_to_place, grid,
                    stack, ret, ret_entry, result, error >>

NextOrient == ApplyOrientations

SpecOrient == InitOrient /\ [][NextOrient]_vars

\* ------------------------------------------------------------------ properties
Occupied == { rc \in GridCells(width, height) : grid[rc[1]][rc[2]] }

MarkedIn(g) == { rc \in GridCells(width, height) : g[rc[1]][rc[2]] }

PlacementCells(f) == Translate(orientation_of(f), f.start_r, f.start_c)

\* The frames whose placement is marked on the grid: every caller of an
\* active call, and the caller a finished call is returning to.
CommittedFrames ==
    IF pc = "return" THEN 1 .. Len(stack) ELSE 1 .. (Len(stack) - 1)

RECURSIVE CellsNeeded(_)
CellsNeeded(ids) ==
    IF ids = << >> THEN 0
    ELSE Cardinality(CHOOSE o \in orient_sets[Head(ids)] : TRUE)
         + CellsNeeded(Tail(ids))

\* C2: get_all_orientations returns between 1 and 8 distinct cell sets (the
\* list enumerates a set, so its elements are pairwise distinct and as many
\* as the set has), each normalized (minimum row 0 and minimum column 0
\* when non-empty) and with exactly as many cells as the input.
C2_OrientationsNormalized ==
    pc = "orient_done" =>
        /\ Cardinality(orient_out) >= 1
        /\ Cardinality(orient_out) <= 8
        /\ \A o \in orient_out :
              /\ Cardinality(o) = Cardinality(coords_in)
              /\ o # {} => /\ \E rc \in o : rc[1] = 0
                           /\ \E rc \in o : rc[2] = 0
                           /\ \A rc \in o : rc[1] >= 0 /\ rc[2] >= 0

\* A shape without symmetry, given away from the origin: 8 orientations.
C2_Witness ==
    /\ pc = "orient_done"
    /\ Cardinality(orient_out) = 8
    /\ <<0, 0>> \notin coords_in

\* C1: for width, height >= 1 and a non-empty instance list, solve_region
\* returns True exactly when every instance can be given an orientation and
\* an anchor with all cells inside the grid and no cell shared, and False
\* exactly when no such assignment exists.
C1_VerdictExact ==
    (pc = "returned" /\ shapes_to_place # << >> /\ width >= 1 /\ height >= 1)
        => (result <=> Packable(width, height, shapes_to_place))

\* The search returned False although the region has cells enough.
C1_Witness ==
    /\ pc = "returned"
    /\ Len(shapes_to_place) >= 2
    /\ result = FALSE
    /\ CellsNeeded(shapes_to_place) <= width * height

\* C5: a second solve of the same region, with the instance list permuted
\* and the orientation lists in another order, returns the verdict of the
\* first.
C5_OrderIndependent ==
    (pc = "returned" /\ run = 2) => (result = first_solve.result)

\* The second solve used another instance order, went through more than
\* one orientation of a list it read in an order of its own, and found a
\* packing.
C5_Witness ==
    /\ pc = "returned"
    /\ run = 2
    /\ result = TRUE
    /\ shapes_to_place # first_solve.shapes
    /\ \E id \in ShapeIds : Len(all_orientations[id]) >= 2

\* C6: during the search the occupied cells are exactly the disjoint union
\* of the placements of the frames on the stack that hold one, one for each
\* instance index below the cursor; when a full solution was found every
\* instance is on the grid and no two overlap.
C6_OccupancyIsPlacements ==
    /\ (pc = "run" \/ (pc = "return" /\ ret = FALSE)) =>
          /\ Occupied = UNION { PlacementCells(stack[i]) : i \in CommittedFrames }
          /\ \A i, j \in CommittedFrames :
                i # j => PlacementCells(stack[i]) \cap PlacementCells(stack[j]) = {}
          /\ \A i \in CommittedFrames : stack[i].shape_index = i - 1
          /\ pc = "run" => Top.shape_index = Cardinality(CommittedFrames)
    /\ (pc = "return" /\ ret = TRUE) =>
          Cardinality(Occupied) = CellsNeeded(shapes_to_place)

\* Two placements are on the grid and a third instance is being tried.
C6_Witness ==
    /\ pc = "run"
    /\ Len(stack) = 3
    /\ Top.oi >= 1
    /\ Cardinality(Occupied) >= 3

\* C7: when a call of backtrack returns False the grid is cell for cell the
\* grid at the entry of that call; a call that returns True has kept every
\* cell marked at its entry and may have marked more.
C7_FalseRestoresGrid ==
    pc = "return" =>
        /\ ret = FALSE => grid = ret_entry
        /\ ret = TRUE => MarkedIn(ret_entry) \subseteq Occupied

\* backtrack(0) returned False after placing its instance and taking it
\* back: the first instance alone fits the region.
C7_Witness ==
    /\ pc = "return"
    /\ ret = FALSE
    /\ stack = << >>
    /\ Packable(width, height, << shapes_to_place[1] >>)

\* C8 as the specification states it: the anchors tried for an orientation
\* are the pairs with start row in [0, height - max_row] and start column
\* in [0, width - max_col], both ranges inclusive.
C8_InclusiveAnchors ==
    \A i \in DOMAIN stack :
        (/\ pc = "run"
         /\ stack[i].oi >= 1
         /\ orientation_of(stack[i]) # {}
         /\ RowsDone(stack[i]))
        => stack[i].tried =
             (0 .. (height - max_r_of(orientation_of(stack[i]))))
             \X (0 .. (width - max_c_of(orientation_of(stack[i]))))

\* C8 as amended: the anchors tried for an orientation are exactly the
\* pairs with start row in [0, height - max_row - 1] and start column in
\* [0, width - max_col - 1]; none outside is ever tried, and when the scan
\* of the orientation ends without a full solution all of them were.
C8_ExclusiveAnchors ==
    \A i \in DOMAIN stack :
        (stack[i].oi >= 1 /\ orientation_of(stack[i]) # {}) =>
            LET o     == orientation_of(stack[i])
                scope == (0 .. (height - max_r_of(o) - 1))
                         \X (0 .. (width - max_c_of(o) - 1))
            IN  /\ stack[i].tried \subseteq scope
                /\ (pc = "run" /\ stack[i].start_r >= height - max_r_of(o))
                      => stack[i].tried = scope

\* The scan of an orientation ended after several anchors were tried.
C8_Witness ==
    /\ pc = "run"
    /\ stack # << >>
    /\ Top.oi >= 1
    /\ orientation_of(Top) # {}
    /\ RowsDone(Top)
    /\ Cardinality(Top.tried) >= 2

\* C9: every search ends by backtrack(0) returning True or False, so the
\* program never stops in a state where solve_region has not returned; the
\* calls on the stack are backtrack(0), backtrack(1), ... in order and the
\* cursor of none exceeds the number of instances; and once a full
\* solution is found no further placement is made.
C9_SearchReturns ==
    /\ (~ENABLED NextRegionSolve) => pc = "returned"
    /\ \A i \in DOMAIN stack :
          /\ stack[i].shape_index = i - 1
          /\ stack[i].shape_index <= Len(shapes_to_place)
    /\ (pc = "return" /\ ret = TRUE) => ~ENABLED PlaceAndRecurse

\* C3: over input lists of well-formed regions, solvable_count is the
\* number of regions read that admit a complete packing, whatever regions
\* came before; a region that needs more cells than it has is reported
\* impossible and not counted, a region with no instances is counted, and
\* any other region is counted exactly when solve_region returned True.
C3_CountIsPackable ==
    /\ (pc \in { "regions", "done" }
        /\ \A i \in DOMAIN region_log : region_log[i] # "malformed")
          => solvable_count =
               Cardinality({ i \in DOMAIN region_log : region_log[i] = "packable" })
    /\ (pc = "region_done" /\ WellFormed(width, height, counts)) =>
          /\ report \in { "trivial", "success" }
                <=> Packable(width, height, expand(counts))
          /\ CellsNeeded(expand(counts)) > width * height
                <=> report = "impossible"
          /\ expand(counts) = << >> <=> report = "trivial"
          /\ report \in { "success", "failed" } => (report = "success" <=> result)

\* solve returned 1 for a list of two regions: the first has cells enough
\* but no packing, the second fills its region exactly.
C3_Witness ==
    /\ pc = "done"
    /\ region_log = << "unpackable", "packable" >>
    /\ solvable_count = 1

\* C4: a region with a negative width or height, or with a positive demand
\* for a shape id the mapping does not have, gets no verdict and is not
\* counted.
C4_MalformedRejected ==
    (\/ width < 0
     \/ height < 0
     \/ \E i \in DOMAIN counts : counts[i] > 0 /\ (i - 1) \notin ShapeIds)
        => report = "none"

\* C10: the solve of a well-formed region never ends in an error; this
\* includes a region that demands a shape with no cells.
C10_WellFormedNeverFails ==
    pc = "error" => ~WellFormed(width, height, counts)

====
